---- MODULE Spec2Model ----
(***************************************************************************)
(* State transition solver (solver.py): a tree search over the states of   *)
(* a "river problem".  A state maps each substate (bank) to the sorted     *)
(* list of the items it holds; a transition moves the facilitator (boat)   *)
(* and up to `capacity` further items to the other substate; a rule that   *)
(* evaluates true on a substate disallows the state.                       *)
(***************************************************************************)
EXTENDS Integers, Sequences, FiniteSets, TLC

\* Largest max_transition_capacity a caller passes in the model.
MaxCapacity == 2

-----------------------------------------------------------------------------
(* Values                                                                  *)

\* Python's str ordering of the item identifiers, as sorted() applies it.
ItemOrder == <<"beans", "boat", "fox", "goose">>

Rank(item) == CHOOSE i \in 1..Len(ItemOrder) : ItemOrder[i] = item

\* Iteration order of the keys of a state dict (insertion order).
SubStateOrder == <<"bank1", "bank2", "bank3">>

\* The exception class the substate lookups raise.
LookupError == "LookupError"

\* The messages of the three LookupErrors, returned in place of a substate
\* tag by the lookup that raises them.
NoSourceError == "No state contains transition facilitator"

NoTargetError == "All substates contain facilitator, can't identify target"

AmbiguousTargetError == "More than one target sub-state was found, behavior undefined"

LookupErrors == {NoSourceError, NoTargetError, AmbiguousTargetError}

\* Python's None.
None == <<>>

Range(s) == {s[i] : i \in 1..Len(s)}

\* Occurrences of `item` in the list s.
Count(s, item) == Cardinality({ i \in 1..Len(s) : s[i] = item })

Reverse(s) == [i \in 1..Len(s) |-> s[Len(s) + 1 - i]]

\* list.remove(x): drops the first occurrence of x.
RemoveFirst(s, x) ==
    IF x \notin Range(s) THEN s
    ELSE LET i == CHOOSE j \in 1..Len(s) :
                     s[j] = x /\ \A k \in 1..(j - 1) : s[k] # x
         IN  SubSeq(s, 1, i - 1) \o SubSeq(s, i + 1, Len(s))

RECURSIVE InsertSorted(_, _)
InsertSorted(s, x) ==
    IF s = <<>> THEN <<x>>
    ELSE IF Rank(x) < Rank(Head(s)) THEN <<x>> \o s
    ELSE <<Head(s)>> \o InsertSorted(Tail(s), x)

\* sorted(list)
RECURSIVE sorted(_)
sorted(s) ==
    IF s = <<>> THEN <<>> ELSE InsertSorted(sorted(Tail(s)), Head(s))

\* Keys of a state dict in iteration order.
Keys(current) == SelectSeq(SubStateOrder, LAMBDA t : t \in DOMAIN current)

-----------------------------------------------------------------------------
(* Rule evaluation.  A rule string is modelled as its sequence of tokens:  *)
(* "(", ")", and the words between single spaces; a word that starts with  *)
(* "!" has neg = TRUE and text = the rest.  Blank is one whitespace        *)
(* character beyond the single space that separates two tokens.            *)

Tok(t) == [neg |-> FALSE, text |-> t]

NotTok(t) == [neg |-> TRUE, text |-> t]

LParen == Tok("(")

RParen == Tok(")")

Blank == Tok(" ")

\* A token matched by the character class [\w!]+
IsWord(tok) == tok.text \notin {"(", ")", " "}

\* str(result) of a Python bool
str(b) == IF b THEN Tok("True") ELSE Tok("False")

\* All matches of \(.*?\) from every start offset: each "(" up to the first
\* ")" that follows it.
get_sub_rules(s) ==
    { SubSeq(s, p, q) : <<p, q>> \in
        { pq \in (1..Len(s)) \X (1..Len(s)) :
            /\ pq[1] < pq[2]
            /\ s[pq[1]] = LParen
            /\ s[pq[2]] = RParen
            /\ \A j \in (pq[1] + 1)..(pq[2] - 1) : s[j] # RParen } }

\* str.replace(pat, rep): every non-overlapping occurrence, left to right.
RECURSIVE ReplaceAll(_, _, _)
ReplaceAll(s, pat, rep) ==
    IF Len(s) < Len(pat) THEN s
    ELSE IF SubSeq(s, 1, Len(pat)) = pat
         THEN rep \o ReplaceAll(SubSeq(s, Len(pat) + 1, Len(s)), pat, rep)
         ELSE <<Head(s)>> \o ReplaceAll(Tail(s), pat, rep)

\* Mutation: `if s not in string_list`, the membership test inverted.
get_value_AbsentIsTrue(s, string_list) ==
    IF s = Tok("True") THEN TRUE
    ELSE IF s = Tok("False") THEN FALSE
    ELSE LET return_val == s.text \notin Range(string_list)
         IN  IF s.neg THEN ~return_val ELSE return_val

get_value(s, string_list) ==
    IF s = Tok("True") THEN TRUE
    ELSE IF s = Tok("False") THEN FALSE
    ELSE LET return_val == s.text \in Range(string_list)
         IN  IF s.neg THEN ~return_val ELSE return_val

RECURSIVE evaluate_rule(_, _)
RECURSIVE SubstituteSubRules(_, _, _)

\* The loop that replaces each parenthesised sub-rule by its value.
SubstituteSubRules(rule, sub_rules, testlist) ==
    IF sub_rules = {} THEN rule
    ELSE LET sub_rule == CHOOSE x \in sub_rules : TRUE
             result == evaluate_rule(SubSeq(sub_rule, 2, Len(sub_rule) - 1),
                                     testlist)
         IN  SubstituteSubRules(ReplaceAll(rule, sub_rule, <<str(result)>>),
                                sub_rules \ {sub_rule}, testlist)

evaluate_rule(rule, testlist) ==
    LET r == SubstituteSubRules(rule, get_sub_rules(rule), testlist)
        \* ([\w!]+) AND ([\w!]+)
        and_at == { i \in 2..(Len(r) - 1) :
                      r[i] = Tok("AND") /\ IsWord(r[i - 1]) /\ IsWord(r[i + 1]) }
        \* (\s+) OR (\s+): whitespace on both sides of " OR "
        or_at == { i \in 2..(Len(r) - 1) :
                      r[i] = Tok("OR") /\ r[i - 1] = Blank /\ r[i + 1] = Blank }
    IN  IF and_at # {}
        THEN LET i == CHOOSE j \in and_at : \A k \in and_at : j <= k
             IN  get_value(r[i - 1], testlist) /\ get_value(r[i + 1], testlist)
        ELSE IF or_at # {}
        THEN LET i == CHOOSE j \in or_at : \A k \in or_at : j <= k
             IN  get_value(r[i - 1], testlist) \/ get_value(r[i + 1], testlist)
        ELSE FALSE

\* Mutation: `return True` inside the outer loop, only the first substate
\* is tested.
state_is_allowed_FirstSubStateOnly(trial_state, transition_rules) ==
    \A i \in 1..Len(transition_rules) :
        ~evaluate_rule(transition_rules[i], trial_state[Keys(trial_state)[1]])

state_is_allowed(trial_state, transition_rules) ==
    \A t \in DOMAIN trial_state :
        \A i \in 1..Len(transition_rules) :
            ~evaluate_rule(transition_rules[i], trial_state[t])

-----------------------------------------------------------------------------
(* Transition generation                                                   *)

get_source_sub_state(current, transition_facilitator) ==
    LET hits == SelectSeq(Keys(current),
                    LAMBDA t : transition_facilitator \in Range(current[t]))
    IN  IF hits = <<>> THEN NoSourceError ELSE Head(hits)

\* Mutation: the `if count > 1` test is missing, the last substate without
\* the facilitator is the target.
get_target_sub_state_LastMiss(current, transition_facilitator) ==
    LET misses == SelectSeq(Keys(current),
                    LAMBDA t : transition_facilitator \notin Range(current[t]))
        count == Len(misses)
    IN  IF count = 0 THEN NoTargetError
        ELSE misses[count]

get_target_sub_state(current, transition_facilitator) ==
    LET misses == SelectSeq(Keys(current),
                    LAMBDA t : transition_facilitator \notin Range(current[t]))
        count == Len(misses)
    IN  IF count = 0 THEN NoTargetError
        ELSE IF count > 1 THEN AmbiguousTargetError
        ELSE misses[count]

\* Mutation: the remove() is missing, a moved item stays in the source too.
RECURSIVE MoveTargets_NoRemove(_, _, _, _)
MoveTargets_NoRemove(state, source_tag, target_tag, targets) ==
    IF targets = <<>> THEN state
    ELSE MoveTargets_NoRemove([state EXCEPT ![target_tag] = Append(@, Head(targets))], source_tag, target_tag, Tail(targets))

RECURSIVE MoveTargets(_, _, _, _)
MoveTargets(state, source_tag, target_tag, targets) ==
    IF targets = <<>> THEN state
    ELSE MoveTargets([state EXCEPT
                         ![target_tag] = Append(@, Head(targets)),
                         ![source_tag] = RemoveFirst(@, Head(targets))],
                     source_tag, target_tag, Tail(targets))

get_new_state(source_state, source_tag, target_tag, targets) ==
    LET moved == MoveTargets(source_state, source_tag, target_tag, targets)
    IN  [moved EXCEPT ![target_tag] = sorted(@), ![source_tag] = sorted(@)]

\* Mutation: new_state = source_state, the appends and removes are applied
\* to the caller's own dict.
get_new_state_source_state_NoCopy(source_state, source_tag, target_tag, targets) ==
    get_new_state(source_state, source_tag, target_tag, targets)

\* The dict passed as source_state, as get_new_state leaves it: new_state is
\* a deep copy, so the appends and removes never reach the argument.
get_new_state_source_state(source_state, source_tag, target_tag, targets) == source_state

\* list(itertools.combinations(s, k))
RECURSIVE combinations(_, _)
combinations(s, k) ==
    IF k = 0 THEN << <<>> >>
    ELSE IF Len(s) < k THEN <<>>
    ELSE LET with_head == combinations(Tail(s), k - 1)
         IN  [i \in 1..Len(with_head) |-> <<Head(s)>> \o with_head[i]]
             \o combinations(Tail(s), k)

\* Mutation: the candidates are drawn from the current state, the
\* facilitator was not moved first.
form_transitions_FacilitatorStays(current, source_tag, target_tag, transition_facilitator, capacity, transition_rules) ==
    LET transition_candidates == combinations(current[source_tag], capacity)
        trial_states == [i \in 1..Len(transition_candidates) |-> get_new_state(current, source_tag, target_tag, transition_candidates[i])]
    IN  SelectSeq(trial_states, LAMBDA s : state_is_allowed(s, transition_rules))

form_transitions(current, source_tag, target_tag, transition_facilitator, capacity, transition_rules) ==
    LET base_new_state == get_new_state(current, source_tag, target_tag,
                                        <<transition_facilitator>>)
        transition_candidates == combinations(base_new_state[source_tag],
                                              capacity)
        trial_states == [i \in 1..Len(transition_candidates) |->
                            get_new_state(base_new_state, source_tag,
                                          target_tag, transition_candidates[i])]
    IN  SelectSeq(trial_states,
                  LAMBDA s : state_is_allowed(s, transition_rules))

\* The dict passed as `current`, as form_transitions leaves it: it is handed
\* to get_new_state once, to move the facilitator; the candidates are moved
\* in base_new_state.
form_transitions_current(current, source_tag, target_tag, transition_facilitator, capacity, transition_rules) ==
    get_new_state_source_state(current, source_tag, target_tag, <<transition_facilitator>>)

\* Mutation: range(0, max_capacity), the full load is never tried.
CapacitySteps_Exclusive(max_capacity) == [i \in 1..max_capacity |-> i - 1]

\* Mutation: range(0, max_capacity + 2), one item too many may travel.
CapacitySteps_OneMore(max_capacity) == [i \in 1..(max_capacity + 2) |-> i - 1]

\* range(0, max_capacity + 1)
CapacitySteps(max_capacity) == [i \in 1..(max_capacity + 1) |-> i - 1]

\* Mutation: new_states = found_states + new_states, later steps come first.
RECURSIVE CollectSteps_Prepend(_, _, _, _, _, _)
CollectSteps_Prepend(this_state, source, target, transition_facilitator, steps, transition_rules) ==
    IF steps = <<>> THEN <<>>
    ELSE CollectSteps_Prepend(this_state, source, target, transition_facilitator,
                              Tail(steps), transition_rules)
         \o form_transitions(this_state, source, target, transition_facilitator,
                             Head(steps), transition_rules)

RECURSIVE CollectSteps(_, _, _, _, _, _)
CollectSteps(this_state, source, target, transition_facilitator, steps, transition_rules) ==
    IF steps = <<>> THEN <<>>
    ELSE form_transitions(this_state, source, target, transition_facilitator,
                          Head(steps), transition_rules)
         \o CollectSteps(this_state, source, target, transition_facilitator,
                         Tail(steps), transition_rules)

\* Defined when both substates are identified (see GeneratorRaises).
form_new_states(this_state, transition_facilitator, max_capacity, transition_rules) ==
    CollectSteps(this_state,
                 get_source_sub_state(this_state, transition_facilitator),
                 get_target_sub_state(this_state, transition_facilitator),
                 transition_facilitator, CapacitySteps(max_capacity),
                 transition_rules)

\* The dict passed as this_state after the steps of form_new_states' loop.
RECURSIVE ThisStateAfterSteps(_, _, _, _, _, _)
ThisStateAfterSteps(this_state, source, target, transition_facilitator, steps, transition_rules) ==
    IF steps = <<>> THEN this_state
    ELSE ThisStateAfterSteps(form_transitions_current(this_state, source, target, transition_facilitator, Head(steps), transition_rules), source, target, transition_facilitator, Tail(steps), transition_rules)

\* The dict passed as this_state, as form_new_states leaves it.
form_new_states_this_state(this_state, transition_facilitator, max_capacity, transition_rules) ==
    ThisStateAfterSteps(this_state,
                        get_source_sub_state(this_state, transition_facilitator),
                        get_target_sub_state(this_state, transition_facilitator),
                        transition_facilitator, CapacitySteps(max_capacity),
                        transition_rules)

\* form_new_states raises before it forms any state.
GeneratorRaises(this_state, transition_facilitator) ==
    \/ get_source_sub_state(this_state, transition_facilitator) \in LookupErrors
    \/ get_target_sub_state(this_state, transition_facilitator) \in LookupErrors

\* The message of the error form_new_states raises: the source is looked up
\* first, then the target.
GeneratorError(this_state, transition_facilitator) ==
    IF get_source_sub_state(this_state, transition_facilitator) \in LookupErrors
    THEN get_source_sub_state(this_state, transition_facilitator)
    ELSE get_target_sub_state(this_state, transition_facilitator)

-----------------------------------------------------------------------------
(* Search tree.  The tree is the sequence of the nodes created so far; a   *)
(* node is referred to by its index, and parent = 0 is Python's None.      *)

SearchTreeNode(parent, state) == [parent |-> parent, children |-> <<>>, system_state |-> state]

is_child(t, node, state) ==
    \E i \in 1..Len(t[node].children) :
        t[t[node].children[i]].system_state = state

\* Mutation: `return new_state == self.system_state`, no walk to the parents.
detect_loop_SelfOnly(t, node, new_state) == node # 0 /\ new_state = t[node].system_state

\* Mutation: `return False`, no state is ever found on the chain.
detect_loop_Never(t, node, new_state) == FALSE

RECURSIVE detect_loop(_, _, _)
detect_loop(t, node, new_state) ==
    IF node = 0 THEN FALSE
    ELSE IF new_state = t[node].system_state THEN TRUE
    ELSE detect_loop(t, t[node].parent, new_state)

\* The loop of add_children: `added` collects the nodes created so far.
RECURSIVE AddChildrenLoop(_, _, _, _)
AddChildrenLoop(t, node, child_states, added) ==
    IF child_states = <<>> THEN [tree |-> t, added |-> added]
    ELSE LET new_state == Head(child_states)
             new_node == Len(t) + 1
         IN  IF ~detect_loop(t, node, new_state) /\ ~is_child(t, node, new_state)
             THEN AddChildrenLoop(Append([t EXCEPT ![node].children = Append(@, new_node)], SearchTreeNode(node, new_state)), node, Tail(child_states), Append(added, new_node))
             ELSE AddChildrenLoop(t, node, Tail(child_states), added)

\* The tree after add_children on `node`, and the nodes it added, in order.
add_children(t, node, child_states) == AddChildrenLoop(t, node, child_states, <<>>)

\* Mutation: `while node.parent`, the walk stops before the root.
RECURSIVE get_state_path_StopsBeforeRoot(_, _)
get_state_path_StopsBeforeRoot(t, node) ==
    IF t[node].parent = 0 THEN <<>>
    ELSE <<t[node].system_state>> \o get_state_path_StopsBeforeRoot(t, t[node].parent)

RECURSIVE get_state_path(_, _)
get_state_path(t, node) ==
    IF node = 0 THEN <<>>
    ELSE <<t[node].system_state>> \o get_state_path(t, t[node].parent)

-----------------------------------------------------------------------------
(* SearchAlgorithm                                                         *)

SupportedAlgorithm(algorithm) == algorithm \in {"breadth-first", "depth-first"}

\* The value __init__ stores in self._algorithm for a supported kind.
StoredAlgorithm(algorithm) == "depth-first"

\* Mutation: `is not` in place of `!=`, true of any two distinct objects.
LoopContinues_IsNot(t, node, target) == TRUE

\* while current_node.system_state != target_state
LoopContinues(t, node, target) == t[node].system_state # target

\* if self._to_visit.count == 0: `count` is the bound method, not its value,
\* so the comparison with 0 is false for every frontier.
ToVisitCountIsZero(to_visit) == FALSE

\* Mutation: appendleft(added[-1]), the siblings never reach the frontier.
add_states_as_children_LastOnly(algorithm, to_visit, added) ==
    IF added = <<>> THEN to_visit ELSE <<added[Len(added)]>> \o to_visit

\* Mutation: the new nodes are put at the front in the order they were
\* attached, extendleft's reversal is missing.
add_states_as_children_NoReverse(algorithm, to_visit, added) ==
    IF algorithm # "breadth-first"
    THEN added \o to_visit
    ELSE to_visit \o added

\* The frontier after add_states_as_children has put `added` on it.
add_states_as_children(algorithm, to_visit, added) ==
    IF algorithm # "breadth-first"
    THEN Reverse(added) \o to_visit   \* extendleft
    ELSE to_visit \o added            \* extend

-----------------------------------------------------------------------------
(* Callers' data                                                           *)

load_initial_state == [bank1 |-> <<"beans", "boat", "fox", "goose">>, bank2 |-> <<>>]

load_terminal_state == [bank1 |-> <<>>, bank2 |-> <<"beans", "boat", "fox", "goose">>]

load_invalid_state_rules == << <<LParen, Tok("fox"), Tok("AND"), Tok("goose"), RParen, Tok("AND"), NotTok("boat")>>, <<LParen, Tok("goose"), Tok("AND"), Tok("beans"), RParen, Tok("AND"), NotTok("boat")>> >>

load_config == [transition_facilitator |-> "boat", transition_max_capacity |-> 1]

\* The sorted list that holds the items of S.
ListOf(S) == SelectSeq(ItemOrder, LAMBDA x : x \in S)

\* The items other than the facilitator in the three-item puzzles.
Cargo == {"fox", "goose"}

\* Two-bank states over the cargo, the boat on either bank, none or both.
StateUniverse == { [bank1 |-> ListOf(A \cup fa), bank2 |-> ListOf((Cargo \ A) \cup fb)] : <<A, fa, fb>> \in (SUBSET Cargo) \X {{}, {"boat"}} \X {{}, {"boat"}} }

RuleChoices == { <<>>, load_invalid_state_rules }

-----------------------------------------------------------------------------
VARIABLES algorithm_to_use, start_state, target_state, transition_facilitator, max_transition_capacity, disallowed_transition_rules, _algorithm, tree, current_node, _to_visit, _visited, solution, exception, pc, call, outcome

inputs == <<algorithm_to_use, start_state, target_state, transition_facilitator, max_transition_capacity, disallowed_transition_rules>>

vars == <<algorithm_to_use, start_state, target_state, transition_facilitator, max_transition_capacity, disallowed_transition_rules, _algorithm, tree, current_node, _to_visit, _visited, solution, exception, pc, call, outcome>>

\* A function called on its own, and what the call gave.
direct == <<call, outcome>>

\* No result yet.
Pending == [done |-> FALSE, raised |-> "none", value |-> None]

\* The caller runs a search and calls nothing else.
SearchCall ==
    /\ call = [fn |-> "search"]
    /\ outcome = Pending

\* The caller's arguments: the shipped puzzle, or a three-item puzzle.
InitInputs ==
    \/ /\ algorithm_to_use \in {"depth-first", "breadth-first", "random"}
       /\ start_state = load_initial_state
       /\ target_state = load_terminal_state
       /\ transition_facilitator = load_config.transition_facilitator
       /\ max_transition_capacity = load_config.transition_max_capacity
       /\ disallowed_transition_rules = load_invalid_state_rules
    \/ /\ algorithm_to_use \in {"depth-first", "breadth-first"}
       /\ start_state \in StateUniverse
       /\ target_state \in StateUniverse
       /\ transition_facilitator = "boat"
       /\ max_transition_capacity \in 0..MaxCapacity
       /\ disallowed_transition_rules \in RuleChoices

\* Nothing constructed, nothing searched yet.
InitIdle ==
    /\ _algorithm = "unset"
    /\ tree = <<>>
    /\ current_node = 0
    /\ _to_visit = <<>>
    /\ _visited = {}
    /\ solution = None
    /\ exception = "none"
    /\ pc = "new"

Init == InitInputs /\ InitIdle /\ SearchCall

\* SearchAlgorithm(algorithm_to_use)
Construct ==
    /\ pc = "new"
    /\ IF SupportedAlgorithm(algorithm_to_use)
       THEN /\ _algorithm' = StoredAlgorithm(algorithm_to_use)
            /\ pc' = "constructed"
            /\ UNCHANGED exception
       ELSE /\ pc' = "raised"
            /\ exception' = "ValueError"
            /\ UNCHANGED _algorithm
    /\ _visited' = {}
    /\ _to_visit' = <<>>
    /\ UNCHANGED <<inputs, tree, current_node, solution, direct>>

\* search(): reset the collections and start the tree.
StartSearch ==
    /\ pc = "constructed"
    /\ _visited' = {}
    /\ tree' = <<SearchTreeNode(0, start_state)>>
    /\ current_node' = 1
    /\ _to_visit' = <<1>>
    /\ pc' = "searching"
    /\ UNCHANGED <<inputs, _algorithm, solution, exception, direct>>

\* One pass of the while loop of search().
Expand ==
    /\ pc = "searching"
    /\ LoopContinues(tree, current_node, target_state)
    /\ _visited' = _visited \cup {current_node}
    /\ IF GeneratorRaises(tree[current_node].system_state, transition_facilitator)
       THEN /\ pc' = "raised"
            /\ exception' = "LookupError"
            /\ UNCHANGED <<tree, current_node, _to_visit, start_state>>
       ELSE LET _new_states == form_new_states(tree[current_node].system_state, transition_facilitator, max_transition_capacity, disallowed_transition_rules)
                grown == add_children(tree, current_node, _new_states)
                frontier == add_states_as_children(_algorithm, _to_visit, grown.added)
                \* current_node.system_state is the dict the generator was
                \* given; the root's is the caller's start_state itself.
                system_state == form_new_states_this_state(tree[current_node].system_state, transition_facilitator, max_transition_capacity, disallowed_transition_rules)
            IN  /\ tree' = [grown.tree EXCEPT ![current_node].system_state = system_state]
                /\ start_state' = IF current_node = 1 THEN system_state ELSE start_state
                /\ IF ToVisitCountIsZero(frontier)
                   THEN /\ pc' = "exited"
                        /\ _to_visit' = frontier
                        /\ UNCHANGED <<current_node, exception>>
                   ELSE IF frontier = <<>>
                   THEN /\ pc' = "raised"
                        /\ exception' = "IndexError"
                        /\ _to_visit' = frontier
                        /\ UNCHANGED current_node
                   ELSE /\ current_node' = Head(frontier)
                        /\ _to_visit' = Tail(frontier)
                        /\ UNCHANGED <<pc, exception>>
    /\ UNCHANGED <<algorithm_to_use, target_state, transition_facilitator, max_transition_capacity, disallowed_transition_rules, _algorithm, solution, direct>>

\* The end of search(): build the path of state transitions.
Return ==
    /\ \/ pc = "exited"
       \/ pc = "searching" /\ ~LoopContinues(tree, current_node, target_state)
    /\ solution' = IF tree[current_node].system_state = target_state
                   THEN get_state_path(tree, current_node)
                   ELSE None
    /\ pc' = "returned"
    /\ UNCHANGED <<inputs, _algorithm, tree, current_node, _to_visit, _visited, exception, direct>>

\* __main__: reverse a found solution in place before printing it.
PrintSolution ==
    /\ pc = "returned"
    /\ solution' = IF solution # None THEN Reverse(solution) ELSE solution
    /\ pc' = "printed"
    /\ UNCHANGED <<inputs, _algorithm, tree, current_node, _to_visit, _visited, exception, direct>>

Next == Construct \/ StartSearch \/ Expand \/ Return \/ PrintSolution

Spec == Init /\ [][Next]_vars

\* All the orders in which the list s can hold its items.
Perms(s) == { p \in [1..Len(s) -> Range(s)] : Range(p) = Range(s) }

\* The states of StateUniverse that hold the boat once, with their lists in
\* any order, as a caller may write them.
UnsortedUniverse == { [bank1 |-> p1, bank2 |-> p2] : <<p1, p2>> \in UNION { Perms(s.bank1) \X Perms(s.bank2) : s \in { u \in StateUniverse : Count(u.bank1 \o u.bank2, "boat") = 1 } } }

\* The caller's arguments when the lists of start and goal come unsorted.
InitInputsUnsorted ==
    /\ algorithm_to_use = "depth-first"
    /\ start_state \in UnsortedUniverse
    /\ target_state \in UnsortedUniverse
    /\ transition_facilitator = load_config.transition_facilitator
    /\ max_transition_capacity = load_config.transition_max_capacity
    /\ disallowed_transition_rules \in RuleChoices

InitUnsorted == InitInputsUnsorted /\ InitIdle /\ SearchCall

SpecUnsorted == InitUnsorted /\ [][Next]_vars

-----------------------------------------------------------------------------
(* The rule evaluator and the transition generator called on their own     *)

\* Operands of a rule: item tokens, negated tokens, the literals, and a
\* token that names no item of the puzzle, bare and negated.
Operands == {Tok("fox"), Tok("goose"), NotTok("boat"), Tok("unicorn"), NotTok("unicorn"), Tok("True"), Tok("False")}

\* "x AND y", "x OR y", "x  OR  y" (two spaces around the OR), and the same
\* with a parenthesised "(x AND y)" or "(x OR y)" as the first operand of an AND.
RuleUniverse ==
    { <<x, Tok("AND"), y>> : <<x, y>> \in Operands \X Operands }
    \cup { <<x, Tok("OR"), y>> : <<x, y>> \in Operands \X Operands }
    \cup { <<x, Blank, Tok("OR"), Blank, y>> : <<x, y>> \in Operands \X Operands }
    \cup { <<LParen, x, Tok("AND"), y, RParen, Tok("AND"), z>> : <<x, y, z>> \in Operands \X Operands \X Operands }
    \cup { <<LParen, x, Tok("OR"), y, RParen, Tok("AND"), z>> : <<x, y, z>> \in Operands \X Operands \X Operands }

\* The item lists of a substate of the three-item puzzles.
ListUniverse == { ListOf(S) : S \in SUBSET (Cargo \cup {"boat"}) }

\* Three-bank states: each cargo item on one bank, the boat on any of them.
Universe3 == { [bank1 |-> ListOf({c \in Cargo : where[c] = 1} \cup (IF 1 \in boats THEN {"boat"} ELSE {})), bank2 |-> ListOf({c \in Cargo : where[c] = 2} \cup (IF 2 \in boats THEN {"boat"} ELSE {})), bank3 |-> ListOf({c \in Cargo : where[c] = 3} \cup (IF 3 \in boats THEN {"boat"} ELSE {}))] : <<where, boats>> \in [Cargo -> 1..3] \X (SUBSET (1..3)) }

\* The two-bank states of the shipped puzzle's four items.
Universe4 == { [bank1 |-> ListOf(A), bank2 |-> ListOf(Range(ItemOrder) \ A)] : A \in SUBSET Range(ItemOrder) }

\* Rule lists for the generator: the shipped ones, alone or followed by a
\* rule with a token that names no item.
GeneratorRuleChoices == RuleChoices \cup { load_invalid_state_rules \o <<r>> : r \in { <<Tok("unicorn"), Tok("AND"), Tok("fox")>>, <<LParen, Tok("fox"), Tok("AND"), Tok("unicorn"), RParen, Tok("AND"), NotTok("boat")>>, <<NotTok("unicorn"), Tok("AND"), Tok("fox")>> } }

EvaluateCalls == { [fn |-> "evaluate_rule", rule |-> r, testlist |-> l] : <<r, l>> \in RuleUniverse \X ListUniverse }

GenerateCalls == { [fn |-> "form_new_states", this_state |-> s, transition_facilitator |-> "boat", max_capacity |-> c, transition_rules |-> rs] : <<s, c, rs>> \in (StateUniverse \cup Universe3 \cup Universe4) \X (0..MaxCapacity) \X GeneratorRuleChoices }

\* One call of evaluate_rule or of form_new_states, no search.
InitDirect ==
    /\ algorithm_to_use = "depth-first"
    /\ start_state = load_initial_state
    /\ target_state = load_terminal_state
    /\ transition_facilitator = load_config.transition_facilitator
    /\ max_transition_capacity = load_config.transition_max_capacity
    /\ disallowed_transition_rules = load_invalid_state_rules
    /\ InitIdle
    /\ call \in EvaluateCalls \/ call \in GenerateCalls
    /\ outcome = Pending

\* evaluate_rule(rule, testlist)
Evaluate ==
    /\ call.fn = "evaluate_rule"
    /\ ~outcome.done
    /\ outcome' = [done |-> TRUE, raised |-> "none", value |-> evaluate_rule(call.rule, call.testlist)]
    /\ UNCHANGED <<inputs, _algorithm, tree, current_node, _to_visit, _visited, solution, exception, pc, call>>

\* form_new_states(this_state, transition_facilitator, max_capacity, transition_rules)
Generate ==
    /\ call.fn = "form_new_states"
    /\ ~outcome.done
    /\ outcome' = IF GeneratorRaises(call.this_state, call.transition_facilitator)
                  THEN [done |-> TRUE, raised |-> GeneratorError(call.this_state, call.transition_facilitator), value |-> None]
                  ELSE [done |-> TRUE, raised |-> "none", value |-> form_new_states(call.this_state, call.transition_facilitator, call.max_capacity, call.transition_rules)]
    /\ UNCHANGED <<inputs, _algorithm, tree, current_node, _to_visit, _visited, solution, exception, pc, call>>

NextDirect == Evaluate \/ Generate

DirectSpec == InitDirect /\ [][NextDirect]_vars

-----------------------------------------------------------------------------
(* Notions the properties are stated in                                    *)

\* The substates of `state` that hold `item`.
HoldersOf(state, item) == { t \in DOMAIN state : item \in Range(state[t]) }

\* Two substates, the facilitator in exactly one of them.
ValidState(state) ==
    /\ Cardinality(DOMAIN state) = 2
    /\ Cardinality(HoldersOf(state, transition_facilitator)) = 1

ValidStart == ValidState(start_state)

\* Number of parent links between `node` and the root.
RECURSIVE Depth(_, _)
Depth(t, node) == IF t[node].parent = 0 THEN 0 ELSE 1 + Depth(t, t[node].parent)

\* Occurrences of `item` in all the substates of `state`.
RECURSIVE TotalCount(_, _, _)
TotalCount(state, tags, item) ==
    IF tags = {} THEN 0
    ELSE LET t == CHOOSE x \in tags : TRUE
         IN  Count(state[t], item) + TotalCount(state, tags \ {t}, item)

\* `child` is `parent` after the facilitator and at most `capacity` other
\* items went from the facilitator's substate to the other one.
LegalMove(parent, child, capacity) ==
    /\ DOMAIN child = DOMAIN parent
    /\ \E src \in DOMAIN parent : \E tgt \in DOMAIN parent \ {src} :
         /\ transition_facilitator \in Range(parent[src])
         /\ \E cargo \in SUBSET (Range(parent[src]) \ {transition_facilitator}) :
              LET moved == cargo \cup {transition_facilitator}
              IN  /\ Cardinality(cargo) <= capacity
                  /\ Range(child[src]) = Range(parent[src]) \ moved
                  /\ Range(child[tgt]) = Range(parent[tgt]) \cup moved
                  /\ Len(child[src]) = Len(parent[src]) - Cardinality(moved)
                  /\ Len(child[tgt]) = Len(parent[tgt]) + Cardinality(moved)
                  /\ \A t \in DOMAIN parent \ {src, tgt} : child[t] = parent[t]

\* The states one legal transition away from `state`, as the generator forms them.
Successors(state) ==
    IF GeneratorRaises(state, transition_facilitator) THEN {}
    ELSE Range(form_new_states(state, transition_facilitator, max_transition_capacity, disallowed_transition_rules))

\* The states reachable from the states of `frontier` by legal transitions.
RECURSIVE ReachableFrom(_, _)
ReachableFrom(seen, frontier) ==
    IF frontier = {} THEN seen
    ELSE LET s == CHOOSE x \in frontier : TRUE
         IN  ReachableFrom(seen \cup {s}, (frontier \ {s}) \cup (Successors(s) \ (seen \cup {s})))

\* The nodes from the root down to `node`.
RECURSIVE Chain(_, _)
Chain(t, node) == IF node = 0 THEN <<>> ELSE Append(Chain(t, t[node].parent), node)

\* The two states hold the same items in every substate, in whatever order.
SameState(a, b) ==
    /\ DOMAIN a = DOMAIN b
    /\ \A t \in DOMAIN a : \A item \in Range(a[t]) \cup Range(b[t]) : Count(a[t], item) = Count(b[t], item)

\* What a pass of the search loop increases: a pass that attaches k nodes
\* and pops one adds k + 1 to it.
Progress(t, to_visit) == 2 * Len(t) - Len(to_visit)

GoalReachable == target_state \in ReachableFrom({}, {start_state})

\* The caller's arguments are the shipped puzzle, searched depth-first.
ClassicPuzzle ==
    /\ algorithm_to_use = "depth-first"
    /\ start_state = load_initial_state
    /\ target_state = load_terminal_state
    /\ transition_facilitator = "boat"
    /\ max_transition_capacity = 1
    /\ disallowed_transition_rules = load_invalid_state_rules

-----------------------------------------------------------------------------
(* Properties                                                              *)

\* C1: on the classic crossing puzzle a depth-first search terminates (the
\* tree stays within 11 nodes and every pass of the loop makes progress) and
\* ends in no other way than by returning a found path of exactly 8 states
\* (7 transitions) whose two ends are the start state and the goal state.
C1_ClassicPuzzleSolved ==
    /\ [](ClassicPuzzle =>
            /\ pc \notin {"raised", "exited"}
            /\ Len(tree) <= 11
            /\ pc = "returned" =>
                  /\ solution # None
                  /\ Len(solution) = 8
                  /\ Depth(tree, current_node) = 7
                  /\ {solution[1], solution[8]} = {load_initial_state, load_terminal_state})
    /\ [][(ClassicPuzzle /\ pc = "searching" /\ pc' = "searching") =>
            Progress(tree', _to_visit') > Progress(tree, _to_visit)]_vars

C1_Witness ==
    /\ ClassicPuzzle
    /\ pc = "returned"
    /\ Len(solution) = 8
    /\ Depth(tree, current_node) = 7

\* C2: a search whose goal is not reachable ends normally with None: when
\* the frontier is empty after an expansion the loop stops, and popping the
\* next node raises nothing.
C2_NotFoundReturnsNone ==
    /\ exception # "IndexError"
    /\ (pc = "returned" /\ tree[current_node].system_state # target_state) => solution = None

\* C3 as stated: the sequence search returns has the start state first and
\* the goal state last, and holds one state more than there are transitions.
C3_ReturnedStartToGoal ==
    (pc = "returned" /\ solution # None) =>
        /\ solution[1] = start_state
        /\ solution[Len(solution)] = target_state
        /\ Len(solution) = Depth(tree, current_node) + 1

\* C3 amended: the sequence search returns has the goal state first and the
\* start state last, holds one state more than there are transitions, and it
\* is the caller's reversal that puts it in start-to-goal order.
C3_ReturnedGoalToStart ==
    /\ (pc = "returned" /\ solution # None) =>
          /\ solution[1] = target_state
          /\ solution[Len(solution)] = start_state
          /\ Len(solution) = Depth(tree, current_node) + 1
    /\ (pc = "printed" /\ solution # None) =>
          /\ solution[1] = start_state
          /\ solution[Len(solution)] = target_state
          /\ Len(solution) = Depth(tree, current_node) + 1

C3_Witness ==
    /\ pc = "returned"
    /\ solution # None
    /\ Len(solution) >= 3
    /\ start_state # target_state

\* C4: with kind 'breadth-first' each pass appends the children it attached
\* at the back of the frontier and pops the front, so the depth of the
\* visited node never decreases (depth d is finished before depth d+1).
C4_BreadthFirstIsFifo ==
    [][(algorithm_to_use = "breadth-first" /\ pc = "searching" /\ pc' = "searching") =>
          /\ <<current_node'>> \o _to_visit' = _to_visit \o [i \in 1..(Len(tree') - Len(tree)) |-> Len(tree) + i]
          /\ Depth(tree', current_node') >= Depth(tree, current_node)]_vars

\* C5: when start equals goal the search returns the one-element path
\* [start]; the generator is never called and no child is attached.
C5_StartIsGoal ==
    (start_state = target_state) =>
        /\ exception \in {"none", "ValueError"}
        /\ pc # "exited"
        /\ _visited = {}
        /\ Len(tree) <= 1
        /\ \A n \in 1..Len(tree) : tree[n].children = <<>>
        /\ (pc = "returned" => solution = <<start_state>>)

C5_Witness ==
    /\ start_state = target_state
    /\ pc = "returned"
    /\ solution = <<start_state>>

\* C6: from a start state with two substates and the facilitator in exactly
\* one of them, a search for a goal reachable by legal transitions through
\* allowed states makes progress in every pass of its loop and ends in no
\* other way than by returning a path whose terminal state is the goal:
\* never with not-found, never with an error.
C6_Completeness ==
    /\ []((pc \in {"returned", "raised", "exited"} /\ ValidStart /\ SupportedAlgorithm(algorithm_to_use) /\ GoalReachable) =>
            /\ pc = "returned"
            /\ solution # None
            /\ tree[current_node].system_state = target_state
            /\ target_state \in Range(solution))
    /\ [][(pc = "searching" /\ pc' = "searching" /\ ValidStart) =>
            (Progress(tree', _to_visit') > Progress(tree, _to_visit) \/ ~GoalReachable)]_vars

\* A goal found only after the search backed out of a dead end.
C6_Witness ==
    /\ ValidStart
    /\ GoalReachable
    /\ pc = "returned"
    /\ solution # None
    /\ Len(solution) >= 3
    /\ Cardinality(_visited) > Len(solution) - 1

\* C7: every child state is its parent's state after the facilitator and at
\* most `capacity` other items moved from the facilitator's substate to the
\* other one, nothing else changed; so are consecutive states of a path.
C7_CapacityBound ==
    /\ \A n \in 1..Len(tree) :
          tree[n].parent # 0 =>
             LegalMove(tree[tree[n].parent].system_state, tree[n].system_state, max_transition_capacity)
    /\ (pc = "returned" /\ solution # None) =>
          \A i \in 1..(Len(solution) - 1) :
             LegalMove(solution[i + 1], solution[i], max_transition_capacity)

\* A child that took a full load, with an item left behind.
C7_Witness ==
    /\ max_transition_capacity >= 1
    /\ \E n \in 1..Len(tree) :
          /\ tree[n].parent # 0
          /\ \E t \in DOMAIN tree[n].system_state :
                /\ Len(tree[n].system_state[t]) = Len(tree[tree[n].parent].system_state[t]) - 1 - max_transition_capacity
                /\ Len(tree[n].system_state[t]) >= 1

\* C8: every state add_children attached satisfies all rules: no rule
\* evaluates true on the item list of any of its substates.
C8_RuleExclusion ==
    \A n \in 1..Len(tree) :
        tree[n].parent # 0 =>
           \A t \in DOMAIN tree[n].system_state :
              \A i \in 1..Len(disallowed_transition_rules) :
                 ~evaluate_rule(disallowed_transition_rules[i], tree[n].system_state[t])

\* A node was expanded whose rules excluded a candidate, and children exist.
C8_Witness ==
    /\ Len(tree) >= 2
    /\ \E n \in _visited :
          /\ tree[n].children # <<>>
          /\ Len(form_new_states(tree[n].system_state, transition_facilitator, max_transition_capacity, <<>>))
               > Len(form_new_states(tree[n].system_state, transition_facilitator, max_transition_capacity, disallowed_transition_rules))

\* C9: every node's state holds each item as many times, over all its
\* substates, as the start state does.
C9_Conservation ==
    \A n \in 1..Len(tree) :
        /\ DOMAIN tree[n].system_state = DOMAIN start_state
        /\ \A item \in Range(ItemOrder) :
              TotalCount(tree[n].system_state, DOMAIN start_state, item)
                 = TotalCount(start_state, DOMAIN start_state, item)

C9_Witness ==
    \E n \in 1..Len(tree) :
        /\ Depth(tree, n) >= 2
        /\ tree[n].system_state # start_state
        /\ \A t \in DOMAIN start_state : tree[n].system_state[t] # <<>>

\* C10: from a start state with the facilitator in exactly one substate,
\* every state a node holds and every state generated from it has the
\* facilitator in exactly one substate, the opposite of its parent's.
C10_FacilitatorInvariant ==
    ValidStart =>
        \A n \in 1..Len(tree) :
            LET here == tree[n].system_state
            IN  /\ ValidState(here)
                /\ tree[n].parent # 0 =>
                      HoldersOf(here, transition_facilitator) # HoldersOf(tree[tree[n].parent].system_state, transition_facilitator)
                /\ \A g \in Successors(here) :
                      /\ ValidState(g)
                      /\ HoldersOf(g, transition_facilitator) # HoldersOf(here, transition_facilitator)

C10_Witness ==
    /\ ValidStart
    /\ \E n \in 1..Len(tree) : Depth(tree, n) >= 2

\* C11: at every point of a search, for every node of the tree, the states
\* along the chain from the root to that node are pairwise distinct.
C11_PathLoopFreedom ==
    \A n \in 1..Len(tree) :
        LET chain == Chain(tree, n)
        IN  \A i \in 1..Len(chain) : \A j \in 1..Len(chain) :
                i # j => tree[chain[i]].system_state # tree[chain[j]].system_state

\* A node three levels down was expanded and the generator offered it its
\* parent's state again, which was not attached.
C11_Witness ==
    \E n \in _visited :
        /\ Depth(tree, n) >= 3
        /\ tree[tree[n].parent].system_state \in Successors(tree[n].system_state)

\* C12: state equality ignores the order of the items within a substate, also
\* for a start or goal state whose lists the caller wrote unsorted: the goal
\* test stops the loop at a node that holds the goal's items, detect_loop
\* lets no chain hold the same items twice, is_child no node two such children.
C12_EqualityIgnoresOrder ==
    /\ (pc = "searching" /\ SameState(tree[current_node].system_state, target_state)) =>
          ~LoopContinues(tree, current_node, target_state)
    /\ \A n \in 1..Len(tree) :
          LET chain == Chain(tree, n)
          IN  \A i \in 1..Len(chain) : \A j \in 1..Len(chain) :
                  i # j => ~SameState(tree[chain[i]].system_state, tree[chain[j]].system_state)
    /\ \A n \in 1..Len(tree) :
          \A i \in 1..Len(tree[n].children) : \A j \in 1..Len(tree[n].children) :
              i # j => ~SameState(tree[tree[n].children[i]].system_state, tree[tree[n].children[j]].system_state)

-----------------------------------------------------------------------------
\* A token that names no item of the puzzle and is no literal or combinator.
Unrecognized(tok) == IsWord(tok) /\ tok.text \notin (Range(ItemOrder) \cup {"True", "False", "AND", "OR"})

\* The rule has an unrecognized token, bare or negated.
HasUnrecognized(rule) == \E i \in 1..Len(rule) : Unrecognized(rule[i])

\* The rule has an unrecognized token that is not negated.
HasBareUnrecognized(rule) == \E i \in 1..Len(rule) : Unrecognized(rule[i]) /\ ~rule[i].neg

\* The rule is built with AND only.
AndOnly(rule) == \A i \in 1..Len(rule) : rule[i] # Tok("OR")

\* The generator returned, and was given a rule list that ends in a rule
\* satisfying P.
GeneratedWithExtraRule(P(_)) ==
    /\ call.fn = "form_new_states"
    /\ outcome.done
    /\ outcome.raised = "none"
    /\ call.transition_rules # <<>>
    /\ P(call.transition_rules[Len(call.transition_rules)])

\* What the generator gives on the same call without the last rule.
WithoutLastRule == form_new_states(call.this_state, call.transition_facilitator, call.max_capacity, SubSeq(call.transition_rules, 1, Len(call.transition_rules) - 1))

\* C13 (as stated): a rule containing an unrecognized token, bare or negated
\* with '!', evaluates to false for every item set, and adding such a rule
\* to the rule list never excludes a state from the generator's result.
C13_UnrecognizedIsFalse ==
    /\ (call.fn = "evaluate_rule" /\ outcome.done /\ HasUnrecognized(call.rule))
           => outcome.value = FALSE
    /\ GeneratedWithExtraRule(HasUnrecognized) => outcome.value = WithoutLastRule

\* C13 (amended): a rule built with AND in which an unrecognized token appears
\* bare evaluates to false for every item set, and adding such a rule never
\* excludes a state from the generator's result; a negated unrecognized token
\* is true for every item set, so "!t AND x" has the value of x.
C13_BareUnrecognizedIsFalse ==
    /\ (call.fn = "evaluate_rule" /\ outcome.done /\ AndOnly(call.rule) /\ HasBareUnrecognized(call.rule))
           => outcome.value = FALSE
    /\ GeneratedWithExtraRule(LAMBDA r : AndOnly(r) /\ HasBareUnrecognized(r)) => outcome.value = WithoutLastRule
    /\ (call.fn = "evaluate_rule" /\ outcome.done /\ Len(call.rule) = 3 /\ call.rule[1] = NotTok("unicorn") /\ call.rule[2] = Tok("AND") /\ call.rule[3] \in {Tok("fox"), Tok("goose")})
           => outcome.value = (call.rule[3].text \in Range(call.testlist))

\* A rule whose recognized part holds of the item list was evaluated with a
\* bare unrecognized operand.
C13_Witness ==
    /\ call.fn = "evaluate_rule"
    /\ outcome.done
    /\ call.rule = <<LParen, Tok("fox"), Tok("AND"), Tok("goose"), RParen, Tok("AND"), Tok("unicorn")>>
    /\ call.testlist = <<"fox", "goose">>
    /\ outcome.value = FALSE

-----------------------------------------------------------------------------
\* The meaning of an operand: a literal, a membership test, or its negation.
OperandHolds(tok, items) ==
    IF tok = Tok("True") THEN TRUE
    ELSE IF tok = Tok("False") THEN FALSE
    ELSE IF tok.neg THEN tok.text \notin Range(items)
    ELSE tok.text \in Range(items)

\* C14: "x OR y", with x and y each a literal, an item token or a negated
\* token, evaluates against an item set to the disjunction of its operands.
C14_OrIsDisjunction ==
    (/\ call.fn = "evaluate_rule"
     /\ outcome.done
     /\ Len(call.rule) = 3
     /\ call.rule[2] = Tok("OR")
     /\ ~HasUnrecognized(call.rule))
        => outcome.value = (OperandHolds(call.rule[1], call.testlist) \/ OperandHolds(call.rule[3], call.testlist))

-----------------------------------------------------------------------------
\* The substates of the generator's argument that lack the facilitator.
CallLacking == DOMAIN call.this_state \ HoldersOf(call.this_state, call.transition_facilitator)

\* C15: the generator fails, and returns no states, with the no-source error
\* when no substate holds the facilitator, with the no-target error when
\* every substate holds it, and with the ambiguous-target error when some
\* substate holds it and more than one lacks it; otherwise it returns.
C15_GeneratorErrors ==
    (call.fn = "form_new_states" /\ outcome.done) =>
        LET holders == HoldersOf(call.this_state, call.transition_facilitator)
        IN  /\ holders = {} => (outcome.raised = NoSourceError /\ outcome.value = None)
            /\ (holders # {} /\ CallLacking = {}) => (outcome.raised = NoTargetError /\ outcome.value = None)
            /\ (holders # {} /\ Cardinality(CallLacking) > 1) => (outcome.raised = AmbiguousTargetError /\ outcome.value = None)
            /\ (holders # {} /\ Cardinality(CallLacking) = 1) => outcome.raised = "none"

\* The generator was called on three substates, two of them without the
\* facilitator, and failed.
C15_Witness ==
    /\ call.fn = "form_new_states"
    /\ outcome.done
    /\ Cardinality(DOMAIN call.this_state) = 3
    /\ Cardinality(CallLacking) = 2
    /\ outcome.raised = AmbiguousTargetError

-----------------------------------------------------------------------------
\* Position of a substate in the iteration order of the state's keys.
KeyIndex(t) == CHOOSE i \in 1..Len(SubStateOrder) : SubStateOrder[i] = t

\* The source of the generator's call: the first substate that holds the
\* facilitator; its target: the substate that lacks it.
CallSource == CHOOSE t \in HoldersOf(call.this_state, call.transition_facilitator) : \A u \in HoldersOf(call.this_state, call.transition_facilitator) : KeyIndex(t) <= KeyIndex(u)

CallTarget == CHOOSE t \in CallLacking : TRUE

\* The items that may travel with the facilitator.
CallPool == Range(call.this_state[CallSource]) \ {call.transition_facilitator}

\* The state after the facilitator and the items of `cargo` have moved.
Moved(cargo) == [call.this_state EXCEPT ![CallSource] = ListOf(Range(@) \ (cargo \cup {call.transition_facilitator})), ![CallTarget] = ListOf(Range(@) \cup cargo \cup {call.transition_facilitator})]

\* The items a returned state moved besides the facilitator.
CargoOf(state) == CallPool \ Range(state[CallSource])

\* Enumeration order of two combinations of the same size: the first item
\* in which they differ comes earlier in the source list.
EnumeratedBefore(a, b) ==
    LET la == ListOf(a)
        lb == ListOf(b)
    IN  \E k \in 1..Len(la) : Rank(la[k]) < Rank(lb[k]) /\ \A j \in 1..(k - 1) : la[j] = lb[j]

\* C16: the generator returns exactly the allowed states reached by moving
\* the facilitator with each combination of at most `capacity` items of the
\* source, each once, ordered by the number of items moved and then by
\* combination enumeration order; with capacity 0 it returns the
\* facilitator-only move alone, when the rules allow it.
C16_GeneratorResult ==
    (call.fn = "form_new_states" /\ outcome.done /\ outcome.raised = "none") =>
        LET new_states == outcome.value
        IN  /\ Range(new_states) = { Moved(cargo) : cargo \in { c \in SUBSET CallPool : Cardinality(c) <= call.max_capacity /\ state_is_allowed(Moved(c), call.transition_rules) } }
            /\ Cardinality(Range(new_states)) = Len(new_states)
            /\ \A i \in 1..Len(new_states) : \A j \in (i + 1)..Len(new_states) :
                   \/ Cardinality(CargoOf(new_states[i])) < Cardinality(CargoOf(new_states[j]))
                   \/ /\ Cardinality(CargoOf(new_states[i])) = Cardinality(CargoOf(new_states[j]))
                      /\ EnumeratedBefore(CargoOf(new_states[i]), CargoOf(new_states[j]))
            /\ call.max_capacity = 0 =>
                   new_states = IF state_is_allowed(Moved({}), call.transition_rules) THEN <<Moved({})>> ELSE <<>>

\* The generator returned moves of one and of two items, and the rules
\* excluded some move.
C16_Witness ==
    /\ call.fn = "form_new_states"
    /\ outcome.done
    /\ outcome.raised = "none"
    /\ call.max_capacity = 2
    /\ \A k \in 1..2 : \E i \in 1..Len(outcome.value) : Cardinality(CargoOf(outcome.value[i])) = k
    /\ \E c \in SUBSET CallPool : Cardinality(c) <= 2 /\ Moved(c) \notin Range(outcome.value)

-----------------------------------------------------------------------------
\* `c` was attached to the parent of `s` after `s` was.
LaterSibling(t, s, c) ==
    /\ t[s].parent # 0
    /\ t[c].parent = t[s].parent
    /\ s < c

\* The nodes of the subtree of `c`, `c` included.
SubTree(t, c) == { d \in 1..Len(t) : c \in Range(Chain(t, d)) }

\* C17: in a depth-first search the node visited next after an expansion
\* that attached children is the last child attached, and by the time a node
\* is visited every later-attached sibling and all its descendants have been
\* visited.
C17_DepthFirstLifo ==
    /\ [][(/\ algorithm_to_use = "depth-first"
           /\ pc = "searching"
           /\ Len(tree') > Len(tree))
              => /\ current_node' = Len(tree')
                 /\ tree'[current_node'].parent = current_node]_vars
    /\ []((algorithm_to_use = "depth-first" /\ pc \in {"searching", "returned", "raised", "exited", "printed"}) =>
            \A s \in (_visited \cup {current_node}) \cap (1..Len(tree)) : \A c \in 1..Len(tree) :
                LaterSibling(tree, s, c) => SubTree(tree, c) \subseteq _visited)

\* A node is being visited whose later-attached sibling has descendants, all
\* visited before it.
C17_Witness ==
    /\ algorithm_to_use = "depth-first"
    /\ pc = "searching"
    /\ current_node \notin _visited
    /\ \E c \in 1..Len(tree) :
          /\ LaterSibling(tree, current_node, c)
          /\ Cardinality(SubTree(tree, c)) >= 3
          /\ SubTree(tree, c) \subseteq _visited

-----------------------------------------------------------------------------
\* The states the search can come to: those reachable from the start state.
ReachableStates == ReachableFrom({}, {start_state})

\* C18: from a valid two-substate start state the search loop cannot run
\* forever, whether or not the goal is reachable: every pass that does not
\* end the search increases 2 * (tree nodes) - (frontier length), which the
\* size of the tree bounds, and the tree is bounded by the finite set R of
\* reachable states: a new node holds a state of R, lies less than |R| links
\* below the root, and no node gets |R| children.
C18_Termination ==
    /\ [][(ValidStart /\ pc = "searching") =>
            /\ pc' = "searching" => Progress(tree', _to_visit') > Progress(tree, _to_visit)
            /\ Len(tree') > Len(tree) =>
                  LET R == ReachableStates
                  IN  /\ \A n \in (Len(tree) + 1)..Len(tree') :
                            /\ tree'[n].system_state \in R
                            /\ Depth(tree', n) < Cardinality(R)
                      /\ Len(tree'[current_node].children) < Cardinality(R)]_vars
    /\ [](Len(_to_visit) <= Len(tree))

\* A search for an unreachable goal ran through a tree of several nodes and
\* came to its end.
C18_Witness ==
    /\ pc = "raised"
    /\ Len(tree) >= 4
    /\ _visited = 1..Len(tree)
    /\ ValidStart
    /\ ~GoalReachable

-----------------------------------------------------------------------------
\* C19: no step of a search changes the caller's start state, goal state or
\* rule list, and generating the successors of a node leaves the state of
\* that node and of every other node of the tree as it was.
C19_InputsNotMutated ==
    [][/\ start_state' = start_state
       /\ target_state' = target_state
       /\ disallowed_transition_rules' = disallowed_transition_rules
       /\ \A n \in 1..Len(tree) : tree'[n].system_state = tree[n].system_state]_vars

\* The root and one of its children have had their successors generated, and
\* the root still holds the caller's start state.
C19_Witness ==
    /\ pc = "searching"
    /\ Cardinality(_visited) >= 2
    /\ \E n \in _visited : tree[n].parent # 0 /\ tree[n].children # <<>>
    /\ tree[1].children # <<>>
    /\ tree[1].system_state = start_state

-----------------------------------------------------------------------------
\* C20: no node is expanded more than once in a search: the node a pass of
\* the loop expands has not been expanded before, the root included.
C20_ExpandedOnce ==
    [][(pc = "searching" /\ pc' # "returned") => current_node \notin _visited]_vars

====
